---- MODULE Spec2Model ----
(***************************************************************************)
(* Course Feedback Analysis Dashboard (src/app.py).                        *)
(*                                                                         *)
(* The program is a Streamlit script: every user interaction with a widget *)
(* re-executes the whole script from line 1 with the widget values the     *)
(* browser session holds.  A state of this model is the state of one       *)
(* browser session after a script run has ended (normally or with an       *)
(* uncaught exception); an action is one user interaction followed by the  *)
(* complete re-execution of the script.                                    *)
(*                                                                         *)
(* Ratings are kept in half points (Rating 3.0 is 6, 3.5 is 7), the unit   *)
(* of the rating slider's step, so that all arithmetic is on integers.  A  *)
(* mean is kept exactly as the pair (sum, cnt); the mean of no values      *)
(* (pandas: NaN) is the pair with cnt = 0.                                 *)
(***************************************************************************)
EXTENDS Integers, Sequences, FiniteSets, TLC

\* ------------------------------------------------------------------ bounds
MaxRecords == 3        \* longest dataset of the small families
MaxStudents == 21      \* most students of the many-student family
MaxDrag == 2           \* how far from a slider's end the user drags a handle

\* ------------------------------------------------------- program constants
HeadStudents == 20     \* .head(20), line 156
HeadSubjects == 15     \* .head(15), line 184
SliderStep == 1        \* step=0.5, line 66, in half points

\* ------------------------------------------------------------ the dataset
\* Subject names in Python's string order (sorted(), line 53).
SubjectNames == <<"Art", "Math">>

SubjectSet == {SubjectNames[i] : i \in DOMAIN SubjectNames}

\* Python's str < str on the subject names.
NameBefore(a, b) ==
    \E i, j \in DOMAIN SubjectNames :
        SubjectNames[i] = a /\ SubjectNames[j] = b /\ i < j

\* A Comment cell as read_csv yields it: an empty field is NaN, any other
\* field is the string itself, a whitespace-only field included.
NaN == "NaN"
Blank == "  "
CommentValues == {NaN, Blank, "good"}

\* pd.notna(c)
NotNa(c) == c # NaN

\* str(c).strip(), on the comment values of the model
Strip(c) == IF c = Blank THEN "" ELSE c

Row(i, sid, subj, rating, comment) ==
    [row |-> i, Student_ID |-> sid, Subject |-> subj, Rating |-> rating,
     Comment |-> comment]

\* read_csv gives the rows a RangeIndex 0, 1, 2, ... in file order.
Indexed(cells) ==
    [i \in DOMAIN cells |->
        Row(i - 1, cells[i][1], cells[i][2], cells[i][3], cells[i][4])]

\* The sequences of 1 to n different elements of S.
SeqsUpTo(S, n) ==
    UNION {{c \in [1..k -> S] : \A i, j \in 1..k : i # j => c[i] # c[j]} :
              k \in 1..n}

\* Small datasets that vary subject, rating and student id.  Ratings 6 and 8
\* leave 7 unused and student ids 1 and 3 leave 2 unused, so that a slider
\* range can select no record.
FilterCells == {<<1, "Art", 6, "good">>, <<1, "Math", 8, "good">>,
                <<3, "Art", 8, "good">>, <<3, "Math", 6, "good">>}

\* Small datasets that vary the comment.
CommentCells == {<<1, subj, 6, c>> : subj \in SubjectSet, c \in CommentValues}

\* Datasets with n students 1..n, one record each, in ascending or
\* descending file order, followed by a second record for student 1.
ManyCells(n, asc) ==
    [i \in 1..(n + 1) |->
        IF i = n + 1 THEN <<1, "Math", 6, "good">>
        ELSE LET sid == IF asc THEN i ELSE n + 1 - i
             IN  <<sid, "Math", 6 + (sid % 2), "good">>]

ManyDatasets ==
    {Indexed(ManyCells(n, asc)) :
        n \in (MaxStudents - 1)..MaxStudents, asc \in BOOLEAN}

\* The datasets a session may load; line 34 names a file of 1000 rows, so
\* none is empty.
Datasets ==
    {Indexed(c) : c \in SeqsUpTo(FilterCells, MaxRecords)}
    \cup {Indexed(c) : c \in SeqsUpTo(CommentCells, MaxRecords)}
    \cup ManyDatasets

\* ---------------------------------------------------------- pandas helpers
\* df[col].unique() as a set
Unique(df, col) == {df[i][col] : i \in DOMAIN df}

MinOf(S) == CHOOSE x \in S : \A y \in S : x <= y
MaxOf(S) == CHOOSE x \in S : \A y \in S : x >= y

\* df[mask], the rows whose mask is true in the order of df, is SelectSeq.

\* df.head(n)
HeadOf(s, n) == IF Len(s) <= n THEN s ELSE SubSeq(s, 1, n)

RECURSIVE SumRating(_)
SumRating(df) ==
    IF df = <<>> THEN 0 ELSE Head(df).Rating + SumRating(Tail(df))

\* Series.mean(): (sum, cnt); cnt = 0 is NaN
Mean(df) == [sum |-> SumRating(df), cnt |-> Len(df)]

RECURSIVE Ascending(_)
Ascending(S) ==
    IF S = {} THEN <<>>
    ELSE LET least == MinOf(S) IN <<least>> \o Ascending(S \ {least})

\* ------------------------------------------------------------------ state
VARIABLES
    build,              \* which Streamlit behaviours the installed version has
    original_data,      \* line 36: the loaded dataset
    session_original,   \* line 41: st.session_state.original_data
    subject_filter,     \* line 51: the multiselect's value
    rating_range,       \* line 61: the rating slider's widget state
    student_id_range,   \* line 72: the student id slider's widget state
    data,               \* the script's variable data when the run ended
    status,             \* "ok", or the exception that ended the run
    metrics,            \* lines 91-99
    subject_counts,     \* line 125
    student_avg,        \* line 156
    csv,                \* line 247
    last_event          \* the interaction that caused the last run

vars == <<build, original_data, session_original, subject_filter,
          rating_range, student_id_range, data, status, metrics,
          subject_counts, student_avg, csv, last_event>>

\* ---------------------------------------------------------------- widgets
\* A slider without a key is identified by its arguments: label, min_value,
\* max_value, default value and step.  The label and step are literals and
\* the default is (min_value, max_value), so (min, max) is the identity.
\* stored: the session holds a value for the widget; shown: the last run
\* rendered it.
NoSlider ==
    [stored |-> FALSE, shown |-> FALSE,
     min |-> 0, max |-> 0, lo |-> 0, hi |-> 0]

\* st.sidebar.slider(label, mn, mx, (mn, mx)): the value the session holds
\* for this identity, else the default (mn, mx).
SliderCall(w, mn, mx) ==
    IF w.stored /\ w.min = mn /\ w.max = mx
    THEN [w EXCEPT !.shown = TRUE]
    ELSE [stored |-> TRUE, shown |-> TRUE,
          min |-> mn, max |-> mx, lo |-> mn, hi |-> mx]

\* A widget the run did not reach.  Depending on the Streamlit version the
\* session drops or keeps its value when a run ends with an exception.
NotReached(w, b) ==
    IF b.prune THEN NoSlider ELSE [w EXCEPT !.shown = FALSE]

\* ------------------------------------------------------------ the filters
\* Mutant of line 57: == with the first selected subject instead of isin.
SubjectFilterFirstOnly(df, selected) ==
    IF selected # {}
    THEN LET first == CHOOSE x \in selected :
                          \A y \in selected : x = y \/ NameBefore(x, y)
         IN  SelectSeq(df, LAMBDA r : r.Subject = first)
    ELSE df

\* lines 56-57
SubjectFilter(df, selected) ==
    IF selected # {}
    THEN SelectSeq(df, LAMBDA r : r.Subject \in selected)
    ELSE df

\* line 68
RatingFilter(df, lo, hi) ==
    SelectSeq(df, LAMBDA r : r.Rating >= lo /\ r.Rating <= hi)

\* Mutant of line 78: the rows come back in descending index order.
StudentFilterReversed(df, lo, hi) ==
    LET kept == SelectSeq(df, LAMBDA r :
                        r.Student_ID >= lo /\ r.Student_ID <= hi)
    IN  [i \in DOMAIN kept |-> kept[Len(kept) + 1 - i]]

\* Mutant of line 78: the range selects by position (iloc), not by value.
StudentFilterByPosition(df, lo, hi) ==
    LET at == {i \in DOMAIN df : i >= lo /\ i <= hi}
    IN  [i \in 1..Cardinality(at) |-> df[MinOf(at) + i - 1]]

\* line 78
StudentFilter(df, lo, hi) ==
    SelectSeq(df, LAMBDA r : r.Student_ID >= lo /\ r.Student_ID <= hi)

\* st.slider raises StreamlitAPIException when min_value = max_value in the
\* versions that require min_value < max_value.
SliderRejects(b, mn, mx) == b.strict /\ mn = mx

\* lines 36-82: the filter part of one script run.  The frame is not empty
\* after the subject filter: a selection holds subjects of the data only.
RunFilters(orig, selected, rr, sr, b) ==
    LET d0 == orig
        d1 == SubjectFilter(d0, selected)
        rmin == MinOf(Unique(d1, "Rating"))
        rmax == MaxOf(Unique(d1, "Rating"))
        rw == SliderCall(rr, rmin, rmax)
        d2 == RatingFilter(d1, rw.lo, rw.hi)
        smin == MinOf(Unique(d2, "Student_ID"))
        smax == MaxOf(Unique(d2, "Student_ID"))
        sw == SliderCall(sr, smin, smax)
        d3 == StudentFilter(d2, sw.lo, sw.hi)
    IN  IF SliderRejects(b, rmin, rmax)
        THEN [status |-> "StreamlitAPIException", data |-> d1,
              rating_range |-> NotReached(rr, b),
              student_id_range |-> NotReached(sr, b)]
        ELSE IF d2 = <<>>
        THEN \* line 74: int(NaN) raises ValueError
             [status |-> "ValueError", data |-> d2,
              rating_range |-> rw,
              student_id_range |-> NotReached(sr, b)]
        ELSE IF SliderRejects(b, smin, smax)
        THEN [status |-> "StreamlitAPIException", data |-> d2,
              rating_range |-> rw,
              student_id_range |-> NotReached(sr, b)]
        ELSE [status |-> "ok", data |-> d3,
              rating_range |-> rw, student_id_range |-> sw]

\* ------------------------------------------------------------ the metrics
\* line 99: data[data["Comment"].notna()]
WithComment(df) == SelectSeq(df, LAMBDA r : NotNa(r.Comment))

\* lines 91-99
Metrics(df) ==
    [shown |-> TRUE,
     total |-> Len(df),
     avg_rating |-> Mean(df),
     unique_subjects |-> Cardinality(Unique(df, "Subject")),
     total_students |-> Cardinality(Unique(df, "Student_ID")),
     total_comments |-> Len(WithComment(df))]

NoMetrics ==
    [shown |-> FALSE, total |-> 0, avg_rating |-> [sum |-> 0, cnt |-> 0],
     unique_subjects |-> 0, total_students |-> 0, total_comments |-> 0]

\* line 228: the comments that reach the word cloud
CommentsText(df) ==
    SelectSeq(df, LAMBDA r : NotNa(r.Comment) /\ Strip(r.Comment) # "")

\* ------------------------------------------------------- the aggregations
CountOf(df, subj) == Len(SelectSeq(df, LAMBDA r : r.Subject = subj))

\* Mutant of line 125: value_counts().sort_index(), the subjects in name
\* order instead of count order.
ValueCountsByName(df) ==
    LET U == Unique(df, "Subject")
        names == SelectSeq(SubjectNames, LAMBDA x : x \in U)
    IN  {[i \in DOMAIN names |->
            [Subject |-> names[i], count |-> CountOf(df, names[i])]]}

\* line 125: data["Subject"].value_counts().  pandas sorts the counts in
\* descending order and documents no order among equal counts, so every
\* arrangement of the ties is an outcome.
ValueCounts(df) ==
    LET U == Unique(df, "Subject")
        n == Cardinality(U)
        Orders == {o \in [1..n -> U] :
                      /\ \A i, j \in 1..n : i # j => o[i] # o[j]
                      /\ \A i, j \in 1..n :
                            i < j => CountOf(df, o[i]) >= CountOf(df, o[j])}
    IN  {[i \in 1..n |-> [Subject |-> o[i], count |-> CountOf(df, o[i])]] :
            o \in Orders}

\* line 184: value_counts().head(15) of the same data
SubjectCountsBar(counts) == HeadOf(counts, HeadSubjects)

\* Mutant of line 156: groupby(sort=False), the group keys in order of first
\* appearance.
RECURSIVE FirstSeen(_, _)
FirstSeen(df, seen) ==
    IF df = <<>> THEN <<>>
    ELSE IF Head(df).Student_ID \in seen THEN FirstSeen(Tail(df), seen)
    ELSE <<Head(df).Student_ID>>
         \o FirstSeen(Tail(df), seen \cup {Head(df).Student_ID})

GroupKeysUnsorted(df) == FirstSeen(df, {})

\* groupby("Student_ID") with the default sort=True: the group keys in
\* ascending order
GroupKeys(df) == Ascending(Unique(df, "Student_ID"))

\* ["Rating"].mean() of one group
GroupMean(df, sid) == Mean(SelectSeq(df, LAMBDA r : r.Student_ID = sid))

\* line 156
StudentAvg(df) ==
    LET keys == GroupKeys(df)
    IN  HeadOf([i \in DOMAIN keys |->
                   [Student_ID |-> keys[i], mean |-> GroupMean(df, keys[i])]],
               HeadStudents)

\* line 247: data.to_csv(index=False): the cells without the index, a NaN
\* cell written as the empty field
ToCsv(df) ==
    [i \in DOMAIN df |->
        <<df[i].Student_ID, df[i].Subject, df[i].Rating,
          IF NotNa(df[i].Comment) THEN df[i].Comment ELSE "">>]

\* ---------------------------------------------------------- one script run
\* Mutant of lines 37-78: the filters work on the loaded frame itself.
OriginalAliased(orig, filtered) == filtered

\* original_data after a run: line 37 gives the filters a copy to work on
\* and lines 57, 68, 78 rebind data, so the loaded frame keeps its rows.
OriginalAfterRun(orig, filtered) == orig

\* lines 40-41: stored on the first run only
SessionOriginalAfterRun(stored, orig) == stored

\* The whole script, run with the widget values the session holds.
Rerun(selected, rr, sr, event) ==
    LET out == RunFilters(original_data, selected, rr, sr, build)
        ok == out.status = "ok"
    IN  /\ subject_filter' = selected
        /\ rating_range' = out.rating_range
        /\ student_id_range' = out.student_id_range
        /\ data' = out.data
        /\ status' = out.status
        /\ metrics' = IF ok THEN Metrics(out.data) ELSE NoMetrics
        /\ subject_counts' \in IF ok THEN ValueCounts(out.data) ELSE {<<>>}
        /\ student_avg' = IF ok THEN StudentAvg(out.data) ELSE <<>>
        /\ csv' = IF ok /\ event = "download" THEN ToCsv(out.data) ELSE <<>>
        /\ original_data' = OriginalAfterRun(original_data, out.data)
        /\ session_original' =
               SessionOriginalAfterRun(session_original, original_data)
        /\ last_event' = event
        /\ UNCHANGED build

\* line 53: the multiselect's options
SubjectOptions == Unique(original_data, "Subject")

\* The first run of a session: the multiselect holds its default, every
\* subject (line 54), and the sliders hold nothing yet.
Init ==
    /\ build \in [strict : BOOLEAN, prune : BOOLEAN]
    /\ original_data \in Datasets
    /\ session_original = original_data
    /\ subject_filter = Unique(original_data, "Subject")
    /\ LET out == RunFilters(original_data, subject_filter,
                             NoSlider, NoSlider, build)
           ok == out.status = "ok"
       IN  /\ rating_range = out.rating_range
           /\ student_id_range = out.student_id_range
           /\ data = out.data
           /\ status = out.status
           /\ metrics = IF ok THEN Metrics(out.data) ELSE NoMetrics
           /\ subject_counts \in IF ok THEN ValueCounts(out.data) ELSE {<<>>}
           /\ student_avg = IF ok THEN StudentAvg(out.data) ELSE <<>>
    /\ csv = <<>>
    /\ last_event = "load"

\* ----------------------------------------------------------------- actions
\* The values the user can drag a range slider to.
Drags(w) ==
    {<<lo, hi>> \in (w.min..w.max) \X (w.min..w.max) :
        /\ lo <= hi
        /\ lo - w.min <= MaxDrag /\ w.max - hi <= MaxDrag
        /\ (lo - w.min) % SliderStep = 0 /\ (hi - w.min) % SliderStep = 0
        /\ <<lo, hi>> # <<w.lo, w.hi>>}

Dragged(w, v) == [w EXCEPT !.lo = v[1], !.hi = v[2]]

\* The user changes the selection of the multiselect (line 51).
SelectSubjects ==
    \E selected \in SUBSET SubjectOptions :
        /\ selected # subject_filter
        /\ Rerun(selected, rating_range, student_id_range, "filter")

\* The user drags the rating slider (line 61).
SetRatingRange ==
    /\ rating_range.shown
    /\ \E v \in Drags(rating_range) :
          Rerun(subject_filter, Dragged(rating_range, v), student_id_range,
                "filter")

\* The user drags the student id slider (line 72).
SetStudentIdRange ==
    /\ student_id_range.shown
    /\ \E v \in Drags(student_id_range) :
          Rerun(subject_filter, rating_range, Dragged(student_id_range, v),
                "filter")

\* The user presses Reset All Filters (lines 81-82): the run that sees the
\* button pressed calls st.rerun(), which runs the script again with the
\* widget values the session holds.
ResetAllFilters ==
    /\ status = "ok"
    /\ Rerun(subject_filter, rating_range, student_id_range, "reset")

\* The user presses Download Filtered Data (lines 246-248).
DownloadFilteredData ==
    /\ status = "ok"
    /\ Rerun(subject_filter, rating_range, student_id_range, "download")

Next ==
    \/ SelectSubjects
    \/ SetRatingRange
    \/ SetStudentIdRange
    \/ ResetAllFilters
    \/ DownloadFilteredData

Spec == Init /\ [][Next]_vars

\* ================================================================== claims
\* The value of a range slider, and whether it constrains anything.
ValueOf(w) == <<w.lo, w.hi>>
Constrained(w) == w.lo # w.min \/ w.hi # w.max

\* The three filter steps with the criteria the session holds.
BySubject(df) == SubjectFilter(df, subject_filter)
ByRating(df) == RatingFilter(df, rating_range.lo, rating_range.hi)
ByStudent(df) == StudentFilter(df, student_id_range.lo, student_id_range.hi)

\* C1: the filtered view is a subset of the loaded records, and its records
\* appear in the same relative order as in the loaded dataset (ascending
\* index).
C1_ViewIsOrderedSubset ==
    status = "ok" =>
        /\ \A i \in DOMAIN data :
              \E j \in DOMAIN original_data : original_data[j] = data[i]
        /\ \A i, j \in DOMAIN data : i < j => data[i].row < data[j].row

\* C1 witness: a completed run whose view keeps at least two records and
\* drops at least one.
C1_Witness ==
    /\ status = "ok"
    /\ last_event = "filter"
    /\ Len(data) >= 2
    /\ Len(data) < Len(original_data)

\* C2: applying the subject, rating and student id filters in any of the six
\* orders gives the view the script computes in the order subject, rating,
\* student id.
C2_FilterOrderIndependent ==
    status = "ok" =>
        /\ data = ByStudent(ByRating(BySubject(original_data)))
        /\ data = ByRating(ByStudent(BySubject(original_data)))
        /\ data = ByStudent(BySubject(ByRating(original_data)))
        /\ data = BySubject(ByStudent(ByRating(original_data)))
        /\ data = ByRating(BySubject(ByStudent(original_data)))
        /\ data = BySubject(ByRating(ByStudent(original_data)))

\* C2 witness: a completed run in which each of the three filters, applied
\* alone to the loaded dataset, drops a record, and a record is left.
C2_Witness ==
    /\ status = "ok"
    /\ data # <<>>
    /\ BySubject(original_data) # original_data
    /\ ByRating(original_data) # original_data
    /\ ByStudent(original_data) # original_data

\* C3: with no subject or every subject selected the subject filter passes
\* every record; with a non-empty proper selection it passes exactly the
\* records whose subject is selected.
C3_SubjectFilterPolicy ==
    LET passed == BySubject(original_data)
        Rows(df) == {df[i].row : i \in DOMAIN df}
        selected == {k \in DOMAIN original_data :
                        original_data[k].Subject \in subject_filter}
    IN  /\ (subject_filter = {} \/ subject_filter = SubjectOptions)
              => passed = original_data
        /\ (subject_filter # {} /\ subject_filter # SubjectOptions)
              => /\ Rows(passed) = {original_data[k].row : k \in selected}
                 /\ Len(passed) = Cardinality(selected)
                 /\ \A i \in DOMAIN passed :
                       passed[i] = original_data[passed[i].row + 1]
        /\ status = "ok" => Rows(data) \subseteq Rows(passed)

\* C3 witness: the user has emptied the selection and the view is the whole
\* dataset, which holds two subjects.
C3_Witness ==
    /\ subject_filter = {}
    /\ last_event = "filter"
    /\ status = "ok"
    /\ data = original_data
    /\ Cardinality(SubjectOptions) = 2

\* C4: a rating range or student id range the user has set stays in effect
\* when the user changes another filter: the view of the next completed run
\* holds no record outside it.
C4_ChosenRangeStaysInEffect ==
    [][/\ (/\ rating_range.shown
           /\ Constrained(rating_range)
           /\ subject_filter' # subject_filter
           /\ status' = "ok")
          => \A i \in DOMAIN data' :
                /\ data'[i].Rating >= rating_range.lo
                /\ data'[i].Rating <= rating_range.hi
       /\ (/\ student_id_range.shown
           /\ Constrained(student_id_range)
           /\ \/ subject_filter' # subject_filter
              \/ ValueOf(rating_range') # ValueOf(rating_range)
           /\ status' = "ok")
          => \A i \in DOMAIN data' :
                /\ data'[i].Student_ID >= student_id_range.lo
                /\ data'[i].Student_ID <= student_id_range.hi]_vars

\* C5: after Reset All Filters no filter constrains anything and the view is
\* the full dataset.
C5_ResetRestoresFullDataset ==
    last_event = "reset" =>
        /\ status = "ok"
        /\ subject_filter \in {{}, SubjectOptions}
        /\ ~Constrained(rating_range)
        /\ ~Constrained(student_id_range)
        /\ data = original_data

\* C6: when the filtered result is empty the run completes without an error
\* and shows total 0, an undefined average, zero subjects, students and
\* comments, and empty aggregate tables.
C6_EmptyResultDegradesGracefully ==
    data = <<>> =>
        /\ status = "ok"
        /\ metrics.shown
        /\ metrics.total = 0
        /\ metrics.avg_rating.cnt = 0
        /\ metrics.unique_subjects = 0
        /\ metrics.total_students = 0
        /\ metrics.total_comments = 0
        /\ subject_counts = <<>>
        /\ student_avg = <<>>

\* C7: the comment count is the number of records of the view whose comment
\* is present and non-empty after trimming whitespace.
C7_CommentCountTrimmed ==
    status = "ok" =>
        metrics.total_comments =
            Cardinality({i \in DOMAIN data :
                            /\ NotNa(data[i].Comment)
                            /\ Strip(data[i].Comment) # ""})

\* One row per subject of the view, with that subject's record count.
OneRowPerSubject ==
    /\ Len(subject_counts) = Cardinality(Unique(data, "Subject"))
    /\ \A subj \in Unique(data, "Subject") :
          \E i \in DOMAIN subject_counts :
              /\ subject_counts[i].Subject = subj
              /\ subject_counts[i].count =
                    Cardinality({k \in DOMAIN data : data[k].Subject = subj})

DescendingByCount ==
    \A i, j \in DOMAIN subject_counts :
        i < j => subject_counts[i].count >= subject_counts[j].count

\* C8 as stated: one row per subject with its count, descending by count,
\* and equal counts ordered by subject name ascending.
C8_TiesBySubjectName ==
    status = "ok" =>
        /\ OneRowPerSubject
        /\ DescendingByCount
        /\ \A i, j \in DOMAIN subject_counts :
              (i < j /\ subject_counts[i].count = subject_counts[j].count)
                  => NameBefore(subject_counts[i].Subject,
                                subject_counts[j].Subject)

\* C8 as amended: one row per subject with its count, descending by count;
\* nothing is claimed about the order of equal counts.
C8_SubjectCountsDescending ==
    status = "ok" => OneRowPerSubject /\ DescendingByCount

\* C8 witness: a completed run whose table has two rows with different
\* counts.
C8_Witness ==
    /\ status = "ok"
    /\ Len(subject_counts) = 2
    /\ subject_counts[1].count > subject_counts[2].count

\* The sum of the ratings of the view's records at the positions in at.
RECURSIVE RatingTotal(_)
RatingTotal(at) ==
    IF at = {} THEN 0
    ELSE LET k == CHOOSE k \in at : TRUE
         IN  data[k].Rating + RatingTotal(at \ {k})

\* C9: the per-student table holds the first 20 groups (all when fewer) of
\* the view grouped by student id, the groups in ascending student id
\* order, each with the mean rating of that student's records.
C9_FirstTwentyStudentMeans ==
    status = "ok" =>
        LET ids == Unique(data, "Student_ID")
            shown == {student_avg[i].Student_ID : i \in DOMAIN student_avg}
            Of(sid) == {k \in DOMAIN data : data[k].Student_ID = sid}
        IN  /\ Len(student_avg) <= HeadStudents
            /\ Len(student_avg) =
                  IF Cardinality(ids) < HeadStudents
                  THEN Cardinality(ids) ELSE HeadStudents
            /\ shown \subseteq ids
            /\ \A i, j \in DOMAIN student_avg :
                  i < j => student_avg[i].Student_ID < student_avg[j].Student_ID
            /\ \A a \in shown : \A b \in ids \ shown : a < b
            /\ \A i \in DOMAIN student_avg :
                  LET of == Of(student_avg[i].Student_ID)
                  IN  /\ student_avg[i].mean.cnt = Cardinality(of)
                      /\ student_avg[i].mean.sum = RatingTotal(of)

\* C9 witness: a completed run over more than 20 students whose table holds
\* 20 rows, one of them the mean of two records.
C9_Witness ==
    /\ status = "ok"
    /\ Cardinality(Unique(data, "Student_ID")) > HeadStudents
    /\ Len(student_avg) = HeadStudents
    /\ \E i \in DOMAIN student_avg : student_avg[i].mean.cnt = 2

\* C10: no run changes the loaded dataset or the copy kept in the session.
C10_RecordStoreNeverMutated ==
    [][/\ original_data' = original_data
       /\ session_original' = session_original]_vars

\* C10 witness: a filtered view has been exported and the loaded dataset is
\* still the one stored at the first run.
C10_Witness ==
    /\ csv # <<>>
    /\ Len(data) < Len(original_data)
    /\ original_data = session_original

====
